---- MODULE Spec2Model ----
(***************************************************************************)
(* Model of the simulation/interaction core of the 3D showcase "world":    *)
(* InputManager, UISystem, Player, StateManager, SpawnSystem and the       *)
(* render loop of main().                                                  *)
(*                                                                         *)
(* Numbers.  The program computes with JavaScript numbers; the model uses  *)
(* fixed point, every product and quotient truncated toward zero:          *)
(*   lengths, coordinates, speeds   hundredths of a world unit   (Unit)    *)
(*   angles                         milliradians                           *)
(*   sines, cosines, input vectors  thousandths                   (Milli)   *)
(*   times                          milliseconds                           *)
(*   Math.random()                  thousandths, 0 .. 999                  *)
(* Math.random() is read from a stream the caller of an operation draws    *)
(* from a finite set of streams; draw k of a stream s is Rand(s, k).       *)
(***************************************************************************)
EXTENDS Integers, Sequences, FiniteSets, TLC

VARIABLES
  \* InputManager
  keys, lookDelta, isPointerLocked, isDragging, lastPointerPos,
  jumpRequested, joystickMovement, touchId,
  \* the physical keyboard and touch screen (the platform, not the program)
  held,
  \* UISystem
  overlayVisible, overlayInfo,
  \* StateManager.state
  player, cubes,
  \* SpawnSystem
  cubeConfigs, spawnedCubes, positions,
  \* World
  entities,
  \* main()
  phase, hoveredCube, frames,
  \* the last operation, its arguments and what it returned or called
  last

inputVars == <<keys, lookDelta, isPointerLocked, isDragging, lastPointerPos,
               jumpRequested, joystickMovement, touchId>>
uiVars == <<overlayVisible, overlayInfo>>
stateVars == <<player, cubes>>
spawnVars == <<cubeConfigs, spawnedCubes, positions, entities>>
mainVars == <<phase, hoveredCube, frames>>
vars == <<inputVars, held, uiVars, stateVars, spawnVars, mainVars, last>>

----------------------------------------------------------------------------
\* Fixed-point arithmetic

Unit == 100
Milli == 1000
PI == 3142
TwoPI == 2 * PI
HalfPI == 1571

Abs(a) == IF a < 0 THEN -a ELSE a
Min(a, b) == IF a < b THEN a ELSE b
Max(a, b) == IF a > b THEN a ELSE b

\* a / b truncated toward zero, b > 0
TDiv(a, b) == IF a >= 0 THEN a \div b ELSE -((-a) \div b)

RECURSIVE SqrtSearch(_, _, _)
SqrtSearch(n, lo, hi) ==
  IF lo >= hi THEN lo
  ELSE LET mid == (lo + hi + 1) \div 2
       IN IF mid * mid <= n THEN SqrtSearch(n, mid, hi)
          ELSE SqrtSearch(n, lo, mid - 1)

\* Math.sqrt, truncated
Sqrt(n) == SqrtSearch(n, 0, 46340)

\* Math.sqrt(x * x + z * z): planar length of (x, z), in the unit of x and z
Length(x, z) == Sqrt(x * x + z * z)

\* sine of a first-quadrant angle (0 .. HalfPI), by its series
SinQ(a) ==
  LET a2 == (a * a) \div Milli
      t3 == (a * a2) \div 6000
      t5 == (t3 * a2) \div 20000
      t7 == (t5 * a2) \div 42000
  IN Min(Milli, a - t3 + t5 - t7)

\* Math.sin of an angle in milliradians, in thousandths
Sin(a) ==
  LET m == a % TwoPI
  IN IF m <= HalfPI THEN SinQ(m)
     ELSE IF m <= PI THEN SinQ(PI - m)
     ELSE IF m <= PI + HalfPI THEN -SinQ(m - PI)
     ELSE -SinQ(TwoPI - m)

\* Math.cos of an angle in milliradians, in thousandths
Cos(a) == Sin(a + HalfPI)

\* draw k (1, 2, ...) of the random stream s, read cyclically
Rand(s, k) == s[((k - 1) % Len(s)) + 1]

NoCube == 0

----------------------------------------------------------------------------
\* UISystem

isVisible == overlayVisible

\* UISystem.show(info): the card is filled with info and the overlay made visible
show(info) == [visible |-> TRUE, info |-> info]

\* UISystem.hide(): no onClose callback is ever registered by activate()
hide == [visible |-> FALSE, info |-> overlayInfo]

CloseKeys == {"KeyQ", "KeyX", "Escape"}

----------------------------------------------------------------------------
\* InputManager

Zero2 == [x |-> 0, y |-> 0]

\* the listeners of InputManager.setupKeyboardListeners, given the overlay
\* state they read
keydown(code, visible) ==
  IF visible
  THEN [keys |-> keys, jumpRequested |-> jumpRequested]
  ELSE [keys |-> keys \cup {code},
        jumpRequested |-> IF code = "Space" THEN TRUE ELSE jumpRequested]

keyup(code, visible) == IF visible THEN keys ELSE keys \ {code}

\* document 'mousemove' (pointer lock): the delta accumulated from movementX/Y
lockedMove(ld, mx, my) ==
  IF isPointerLocked /\ ~isVisible
  THEN [x |-> ld.x + mx, y |-> ld.y + my]
  ELSE ld

\* window 'mousemove' (drag-to-look fallback): whether the listener acts
dragActive == isDragging /\ ~isPointerLocked /\ ~isVisible

\* canvas 'touchmove': the delta is accumulated whatever the overlay state
touchmove(id, c) ==
  IF id = touchId
  THEN [lookDelta |-> [x |-> lookDelta.x + (c.x - lastPointerPos.x),
                       y |-> lookDelta.y + (c.y - lastPointerPos.y)],
        lastPointerPos |-> c]
  ELSE [lookDelta |-> lookDelta, lastPointerPos |-> lastPointerPos]

\* getMovement without the test of the overlay, the keys alone
getMovementUngated ==
  [x |-> (IF "KeyD" \in keys THEN Milli ELSE 0) - (IF "KeyA" \in keys THEN Milli ELSE 0),
   y |-> (IF "KeyW" \in keys THEN Milli ELSE 0) - (IF "KeyS" \in keys THEN Milli ELSE 0)]

\* getMovement without the rescaling of a sum longer than 1
getMovementUnscaled ==
  IF isVisible THEN Zero2
  ELSE
    LET up == IF "KeyW" \in keys \/ "ArrowUp" \in keys THEN Milli ELSE 0
        down == IF "KeyS" \in keys \/ "ArrowDown" \in keys THEN Milli ELSE 0
        left == IF "KeyA" \in keys \/ "ArrowLeft" \in keys THEN Milli ELSE 0
        right == IF "KeyD" \in keys \/ "ArrowRight" \in keys THEN Milli ELSE 0
    IN [x |-> right - left + joystickMovement.x,
        y |-> up - down + joystickMovement.y]

\* InputManager.getMovement(), in thousandths
getMovement ==
  IF isVisible THEN Zero2
  ELSE
    LET up == IF "KeyW" \in keys \/ "ArrowUp" \in keys THEN Milli ELSE 0
        down == IF "KeyS" \in keys \/ "ArrowDown" \in keys THEN Milli ELSE 0
        left == IF "KeyA" \in keys \/ "ArrowLeft" \in keys THEN Milli ELSE 0
        right == IF "KeyD" \in keys \/ "ArrowRight" \in keys THEN Milli ELSE 0
        mx == right - left + joystickMovement.x
        my == up - down + joystickMovement.y
        length == Length(mx, my)
    IN IF length > Milli
       THEN [x |-> TDiv(mx * Milli, length), y |-> TDiv(my * Milli, length)]
       ELSE [x |-> mx, y |-> my]

\* getLookDelta that returns the accumulator and leaves it as it is
getLookDeltaKeepsDelta ==
  [ret |-> IF isVisible THEN Zero2 ELSE lookDelta, lookDelta |-> lookDelta]

\* InputManager.getLookDelta(): what it returns and what it leaves accumulated
getLookDelta ==
  [ret |-> IF isVisible THEN Zero2 ELSE lookDelta, lookDelta |-> Zero2]

\* consumeJump that returns the latch without clearing it
consumeJumpKeepsLatch ==
  [ret |-> IF isVisible THEN FALSE ELSE jumpRequested, jumpRequested |-> jumpRequested]

\* consumeJump without its own read of the overlay gate
consumeJumpUngated ==
  [ret |-> jumpRequested, jumpRequested |-> FALSE]

\* InputManager.consumeJump(): what it returns and what it leaves latched
consumeJump ==
  [ret |-> IF isVisible THEN FALSE ELSE jumpRequested, jumpRequested |-> FALSE]

\* InputManager.requestJump()
requestJump == TRUE

----------------------------------------------------------------------------
\* World and StateManager

\* World.bounds.radius = StateManager.state.world.radius, in hundredths
radius == 5000

\* StateManager.addPlayer
addPlayer == [x |-> 0, y |-> 170, z |-> 0, rotX |-> 0, rotY |-> 0, velocityY |-> 0]

----------------------------------------------------------------------------
\* Player

moveSpeed == 800
lookSensitivity == 2
gravity == 2000
jumpForce == 800
groundY == 170
\* Math.PI / 2 - 0.1
MaxPitch == HalfPI - 100

isGrounded(st) == st.y <= groundY

\* handleJump without the test of position.y against groundY at its end
handleJumpUnclamped(dt, st) ==
  LET v0 == IF isGrounded(st) /\ consumeJump.ret THEN jumpForce ELSE st.velocityY
      v1 == v0 - TDiv(gravity * dt, Milli)
  IN [st EXCEPT !.y = st.y + TDiv(v1 * dt, Milli), !.velocityY = v1]

\* handleJump that takes a latched jump wherever the player is
handleJumpAnywhere(dt, st) ==
  LET v0 == IF consumeJump.ret THEN jumpForce ELSE st.velocityY
      v1 == v0 - TDiv(gravity * dt, Milli)
      y1 == st.y + TDiv(v1 * dt, Milli)
  IN IF y1 < groundY
     THEN [st EXCEPT !.y = groundY, !.velocityY = 0]
     ELSE [st EXCEPT !.y = y1, !.velocityY = v1]

\* Player.handleJump: the player state after it
handleJump(dt, st) ==
  LET v0 == IF isGrounded(st) /\ consumeJump.ret THEN jumpForce ELSE st.velocityY
      v1 == v0 - TDiv(gravity * dt, Milli)
      y1 == st.y + TDiv(v1 * dt, Milli)
  IN IF y1 < groundY
     THEN [st EXCEPT !.y = groundY, !.velocityY = 0]
     ELSE [st EXCEPT !.y = y1, !.velocityY = v1]

\* handleLook without the clamp of the pitch
handleLookUnclamped(delta, st) ==
  [st EXCEPT !.rotY = st.rotY + delta.x * lookSensitivity,
             !.rotX = st.rotX + delta.y * lookSensitivity]

\* Player.handleLook, given the delta getLookDelta() returned
handleLook(delta, st) ==
  LET yaw == st.rotY + delta.x * lookSensitivity
      pitch == st.rotX + delta.y * lookSensitivity
  IN [st EXCEPT !.rotY = yaw, !.rotX = Max(-MaxPitch, Min(MaxPitch, pitch))]

\* clampPlayer with the world radius itself as the limit
clampPlayerToRadius(x, z) ==
  LET dist == Length(x, z)
  IN IF dist > radius
     THEN [x |-> TDiv(x * radius, dist), z |-> TDiv(z * radius, dist)]
     ELSE [x |-> x, z |-> z]

\* the clamp at the end of Player.handleMovement
clampPlayer(x, z) ==
  LET maxRadius == radius - 1 * Unit
      dist == Length(x, z)
  IN IF dist > maxRadius
     THEN [x |-> TDiv(x * maxRadius, dist), z |-> TDiv(z * maxRadius, dist)]
     ELSE [x |-> x, z |-> z]

\* the displacement without velocity.normalize(): the rotated input scaled by
\* moveSpeed * deltaTime
moveVelocityUnnormalized(dt, input, yaw) ==
  LET vx == TDiv(Sin(yaw) * input.y + Sin(yaw + HalfPI) * input.x, Milli)
      vz == TDiv(Cos(yaw) * input.y + Cos(yaw + HalfPI) * input.x, Milli)
      step == TDiv(moveSpeed * dt, Milli)
  IN [x |-> TDiv(vx * step, Milli), z |-> TDiv(vz * step, Milli)]

\* the displacement Player.handleMovement adds before it clamps
moveVelocity(dt, input, yaw) ==
  LET fx == Sin(yaw)
      fz == Cos(yaw)
      rx == Sin(yaw + HalfPI)
      rz == Cos(yaw + HalfPI)
      vx == TDiv(fx * input.y + rx * input.x, Milli)
      vz == TDiv(fz * input.y + rz * input.x, Milli)
      len == Length(vx, vz)
      nx == IF len = 0 THEN vx ELSE TDiv(vx * Milli, len)
      nz == IF len = 0 THEN vz ELSE TDiv(vz * Milli, len)
      step == TDiv(moveSpeed * dt, Milli)
  IN [x |-> TDiv(nx * step, Milli), z |-> TDiv(nz * step, Milli)]

\* Player.handleMovement, given the vector getMovement() returned
handleMovement(dt, input, st) ==
  IF input.x = 0 /\ input.y = 0 THEN st
  ELSE LET v == moveVelocity(dt, input, st.rotY)
           c == clampPlayer(st.x + v.x, st.z + v.z)
       IN [st EXCEPT !.x = c.x, !.z = c.z]

\* Player.update that reads the keys and the pending look delta whatever the
\* overlay
playerUpdateIgnoringOverlay(dt) ==
  [player |-> handleMovement(dt, getMovementUngated,
                             handleLook(lookDelta, handleJump(dt, player))),
   jumpRequested |-> IF isGrounded(player) THEN consumeJump.jumpRequested
                     ELSE jumpRequested,
   lookDelta |-> Zero2,
   jumped |-> isGrounded(player) /\ consumeJump.ret,
   look |-> lookDelta]

\* Player.update with the physics under the overlay gate too: nothing runs
\* while the overlay is visible
playerUpdatePausedByOverlay(dt) ==
  IF ~isVisible
  THEN [player |-> handleMovement(dt, getMovement,
                                  handleLook(getLookDelta.ret, handleJump(dt, player))),
        jumpRequested |-> IF isGrounded(player) THEN consumeJump.jumpRequested
                          ELSE jumpRequested,
        lookDelta |-> getLookDelta.lookDelta,
        jumped |-> isGrounded(player) /\ consumeJump.ret,
        look |-> getLookDelta.ret]
  ELSE [player |-> player, jumpRequested |-> jumpRequested,
        lookDelta |-> lookDelta, jumped |-> FALSE, look |-> Zero2]

\* Player.update: the player state, and what is left in the InputManager
playerUpdate(dt) ==
  LET afterJump == handleJump(dt, player)
      jumpLeft == IF isGrounded(player) THEN consumeJump.jumpRequested
                  ELSE jumpRequested
  IN IF ~isVisible
     THEN [player |-> handleMovement(dt, getMovement,
                                     handleLook(getLookDelta.ret, afterJump)),
           jumpRequested |-> jumpLeft,
           lookDelta |-> getLookDelta.lookDelta,
           jumped |-> isGrounded(player) /\ consumeJump.ret,
           look |-> getLookDelta.ret]
     ELSE [player |-> afterJump,
           jumpRequested |-> jumpLeft,
           lookDelta |-> lookDelta,
           jumped |-> isGrounded(player) /\ consumeJump.ret,
           look |-> Zero2]

----------------------------------------------------------------------------
\* StateManager: cubes

boundaryBuffer == 800
baseY == 300
floatAmplitude == 30

\* a uniformly random point of the disc of radius maxR about the centre:
\* angle = Math.random() * 2 PI, r = Math.sqrt(Math.random()) * maxR
discPoint(maxR, uAngle, uR) ==
  LET angle == TDiv(uAngle * TwoPI, Milli)
      r == TDiv(Sqrt(uR * Milli) * maxR, Milli)
  IN [x |-> TDiv(Cos(angle) * r, Milli), z |-> TDiv(Sin(angle) * r, Milli)]

\* StateManager.addCube(id, position): the new cube state, which takes the
\* draws k .. k + 5 of the stream rs
addCube(id, pos, rs, k) ==
  LET t == discPoint(radius - 8 * Unit, Rand(rs, k), Rand(rs, k + 1))
  IN [id |-> id,
      x |-> pos.x, y |-> 3 * Unit, z |-> pos.z,
      rotX |-> 0, rotY |-> 0,
      targetX |-> t.x, targetZ |-> t.z,
      isHovered |-> FALSE,
      time |-> TDiv(Rand(rs, k + 2) * TwoPI, Milli),
      wanderSpeed |-> 30 + TDiv(Rand(rs, k + 3) * 50, Milli),
      floatFrequency |-> 1200 + TDiv(Rand(rs, k + 4) * 600, Milli),
      rotationSpeed |-> 200 + TDiv(Rand(rs, k + 5) * 300, Milli)]

\* World.isInBounds(position, padding): the planar distance from the centre
\* is <= radius - padding, compared by the squares
isInBounds(pos, padding) ==
  pos.x * pos.x + pos.z * pos.z <= (radius - padding) * (radius - padding)

\* the value of a coordinate that is not a number
NaN == -1000000

\* the condition for a new target without the test of the distance to the
\* target
needsTargetAtEdgeOnly(dist, distFromCenter) ==
  distFromCenter >= radius - boundaryBuffer

\* the condition under which simulateCubes picks a new target
needsTarget(dist, distFromCenter) ==
  dist < 50 \/ distFromCenter >= radius - boundaryBuffer

\* t < 0.5: 2 t^2, else 1 - 2 (1 - t)^2 / 2, in thousandths
ease(t) ==
  IF t < 500 THEN TDiv(2 * t * t, Milli)
  ELSE Milli - TDiv(TDiv(2 * (Milli - t) * (Milli - t), Milli), 2)

\* the speed of a cube with the eased ramp in place of the linear one
wanderSpeedEased(cube, dist) ==
  TDiv(cube.wanderSpeed * ease(Min(TDiv(dist * Milli, 5 * Unit), Milli)), Milli)

\* the speed of a cube at planar distance dist from its target
wanderSpeedAt(cube, dist) ==
  TDiv(cube.wanderSpeed * Min(TDiv(dist * Milli, 5 * Unit), Milli), Milli)

\* the body of the loop of StateManager.simulateCubes for one cube, with the
\* draws k, k + 1 of the stream rs when it picks a new target; with dist = 0
\* the quotients dx / dist and dz / dist of the else branch are 0 / 0 = NaN
simulateCube(cube, dt, rs, k) ==
  LET time == cube.time + dt
      c1 == [cube EXCEPT
               !.time = time,
               !.y = baseY + TDiv(Sin(TDiv(time * cube.floatFrequency, Milli))
                                  * floatAmplitude, Milli),
               !.rotY = cube.rotY + TDiv(cube.rotationSpeed * dt, Milli),
               !.rotX = TDiv(Sin(time \div 2) * 100, Milli)]
      dx == cube.targetX - cube.x
      dz == cube.targetZ - cube.z
      dist == Length(dx, dz)
      distFromCenter == Length(cube.x, cube.z)
  IN IF needsTarget(dist, distFromCenter)
     THEN LET t == discPoint(radius - boundaryBuffer, Rand(rs, k), Rand(rs, k + 1))
          IN [cube |-> [c1 EXCEPT !.targetX = t.x, !.targetZ = t.z],
              k |-> k + 2, retargeted |-> TRUE]
     ELSE IF dist = 0
     THEN [cube |-> [c1 EXCEPT !.x = NaN, !.z = NaN],
           k |-> k, retargeted |-> FALSE]
     ELSE LET step == TDiv(wanderSpeedAt(cube, dist) * dt, Milli)
          IN [cube |-> [c1 EXCEPT
                          !.x = cube.x + TDiv(TDiv(dx * Milli, dist) * step, Milli),
                          !.z = cube.z + TDiv(TDiv(dz * Milli, dist) * step, Milli)],
              k |-> k, retargeted |-> FALSE]

RECURSIVE simulateFrom(_, _, _, _, _)
simulateFrom(cs, i, dt, rs, k) ==
  IF i > Len(cs) THEN cs
  ELSE LET r == simulateCube(cs[i], dt, rs, k)
       IN simulateFrom([cs EXCEPT ![i] = r.cube], i + 1, dt, rs, r.k)

\* StateManager.simulateCubes(deltaTime)
simulateCubes(cs, dt, rs) == simulateFrom(cs, 1, dt, rs, 1)

----------------------------------------------------------------------------
\* SpawnSystem: the placement planner

minDistanceFromCenter == 1000
minDistanceBetweenCubes == 800
edgePadding == 1200
maxAttempts == 50

\* Math.ceil(Math.sqrt(count))
CeilSqrt(n) == LET r == Sqrt(n) IN IF r * r = n THEN r ELSE r + 1

\* isValidPosition with the distance from the centre as its only test
isValidPositionCentreOnly(pos, existing) ==
  ~(Length(pos.x, pos.z) < minDistanceFromCenter)

\* SpawnSystem.isValidPosition
isValidPosition(pos, existing) ==
  /\ ~(Length(pos.x, pos.z) < minDistanceFromCenter)
  /\ \A j \in 1..Len(existing) :
       ~(Length(pos.x - existing[j].x, pos.z - existing[j].z)
           < minDistanceBetweenCubes)

\* polar with the distance dropped: the centre, whatever the angle
polarAtCentre(a, r, via) ==
  [x |-> 0, z |-> 0, via |-> via]

\* the point at angle a (milliradians) and distance r of the centre
polar(a, r, via) ==
  [x |-> TDiv(Cos(a) * r, Milli), z |-> TDiv(Sin(a) * r, Milli), via |-> via]

\* the candidate of attempt i (0, 1, ...) of findRandomValidPosition, the
\* attempts drawing from draw k of the stream on
randomCandidate(rs, k, i) ==
  LET maxRadius == radius - edgePadding
      angle == TDiv(Rand(rs, k + 2 * i) * TwoPI, Milli)
      r == minDistanceFromCenter
             + TDiv(Sqrt(Rand(rs, k + 2 * i + 1) * Milli)
                      * (maxRadius - minDistanceFromCenter), Milli)
  IN polar(angle, r, "random")

\* SpawnSystem.findRandomValidPosition: the candidate of the first attempt
\* that is valid (found = FALSE for null, after maxAttempts attempts) and the
\* next draw of the stream
findRandomValidPosition(existing, rs, k) ==
  LET valid == {i \in 0..(maxAttempts - 1) :
                  isValidPosition(randomCandidate(rs, k, i), existing)}
  IN IF valid = {} THEN [found |-> FALSE, k |-> k + 2 * maxAttempts]
     ELSE LET first == CHOOSE i \in valid : \A j \in valid : i <= j
          IN [found |-> TRUE, pos |-> randomCandidate(rs, k, first),
              k |-> k + 2 * (first + 1)]

\* the while loop of generateDistributedPositions that fills the shortfall
RECURSIVE fillRemaining(_, _, _, _)
fillRemaining(ps, count, rs, k) ==
  IF Len(ps) >= count THEN [ps |-> ps, k |-> k]
  ELSE
    LET f == findRandomValidPosition(ps, rs, k)
    IN IF f.found
       THEN fillRemaining(Append(ps, f.pos), count, rs, f.k)
       ELSE LET maxRadius == radius - edgePadding
                angle == TDiv(Rand(rs, f.k) * TwoPI, Milli)
                r == minDistanceFromCenter
                       + TDiv(Rand(rs, f.k + 1)
                                * (maxRadius - minDistanceFromCenter), Milli)
            IN fillRemaining(Append(ps, polar(angle, r, "fallback")),
                             count, rs, f.k + 2)

\* the candidate i of ring `ring`, of inRing, with the draws k, k + 1
ringCandidate(ring, rings, i, inRing, rs, k) ==
  LET maxRadius == radius - edgePadding
      ringRadius == TDiv(ring * maxRadius, rings)
      angle == TDiv(i * TwoPI, inRing) + ring * 500
      jitterR == TDiv((Rand(rs, k) - 500) * TDiv(maxRadius, rings), 2 * Milli)
      jitterAngle == TDiv((Rand(rs, k + 1) - 500) * 300, Milli)
  IN polar(angle + jitterAngle, ringRadius + jitterR, "ring")

\* Math.min(Math.floor(circumference / minDistanceBetweenCubes), count - cubeIndex)
\* of ring `ring`, with cubeIndex cubes placed
cubesInRing(ring, rings, count, cubeIndex) ==
  LET maxRadius == radius - edgePadding
      ringRadius == TDiv(ring * maxRadius, rings)
      circumference == TDiv(TwoPI * ringRadius, Milli)
  IN Min(circumference \div minDistanceBetweenCubes, count - cubeIndex)

\* the inner loop of the ring pass, from candidate i of ring `ring` on;
\* cubeIndex = Len(ps) throughout
RECURSIVE ringLoop(_, _, _, _, _, _, _)
ringLoop(ps, count, ring, i, inRing, rs, k) ==
  IF ~(i < inRing /\ Len(ps) < count) THEN [ps |-> ps, k |-> k]
  ELSE LET pos == ringCandidate(ring, CeilSqrt(count), i, inRing, rs, k)
       IN IF isValidPosition(pos, ps)
          THEN ringLoop(Append(ps, pos), count, ring, i + 1, inRing, rs, k + 2)
          ELSE ringLoop(ps, count, ring, i + 1, inRing, rs, k + 2)

\* the ring pass of generateDistributedPositions, from ring `ring` on
RECURSIVE ringPass(_, _, _, _, _)
ringPass(ps, count, ring, rs, k) ==
  IF ~(ring <= CeilSqrt(count) /\ Len(ps) < count) THEN [ps |-> ps, k |-> k]
  ELSE LET done == ringLoop(ps, count, ring, 0,
                            cubesInRing(ring, CeilSqrt(count), count, Len(ps)), rs, k)
       IN ringPass(done.ps, count, ring + 1, rs, done.k)

\* generateDistributedPositions without the loop that fills the shortfall
generateDistributedPositionsRingPassOnly(count, rs) ==
  ringPass(<<>>, count, 1, rs, 1)

\* SpawnSystem.generateDistributedPositions(count), with the draws of rs from
\* the first on: the positions, each with the branch that placed it, and the
\* next draw
generateDistributedPositions(count, rs) ==
  LET pass == ringPass(<<>>, count, 1, rs, 1)
  IN fillRemaining(pass.ps, count, rs, pass.k)

\* the loop of loadAndSpawnCubes that adds one cube state per config, in the
\* order of the configs; ids are 1 .. count, and each addCube takes six draws
addCubes(cs, ps, rs, k) ==
  cs \o [i \in 1..Len(ps) |-> addCube(i, ps[i], rs, k + 6 * (i - 1))]

\* createRenderersFromState with a loop that ends at the first cube state
\* without a config
renderersUntilMissing(cs, configs) ==
  LET missing == {i \in 1..Len(cs) : cs[i].id \notin configs}
      n == IF missing = {} THEN Len(cs)
           ELSE (CHOOSE i \in missing : \A j \in missing : i <= j) - 1
  IN [i \in 1..n |-> cs[i].id]

\* SpawnSystem.createRenderersFromState: the ids of the cube states, in state
\* order, for which an InfoCube is created
renderersFrom(cs, configs) ==
  LET withConfig(c) == c.id \in configs
      kept == SelectSeq(cs, withConfig)
  IN [i \in 1..Len(kept) |-> kept[i].id]

----------------------------------------------------------------------------
\* InfoCube and the hover update of the render loop

\* the index in state.cubes of the cube state with this id
RECURSIVE stateIndex(_, _, _)
stateIndex(cs, id, i) ==
  IF i > Len(cs) THEN 0
  ELSE IF cs[i].id = id THEN i ELSE stateIndex(cs, id, i + 1)

\* InfoCube.setHovered of renderer r (an index of spawnedCubes)
setHovered(cs, r, hovered) ==
  [cs EXCEPT ![stateIndex(cs, spawnedCubes[r], 1)].isHovered = hovered]

\* the number of cube states with isHovered = true
hoveredCount(cs) == Cardinality({i \in 1..Len(cs) : cs[i].isHovered})

\* hoverCalls with the new cube hovered before the previous one is cleared
hoverCallsSetFirst(newHoveredCube) ==
  IF newHoveredCube # hoveredCube
  THEN (IF newHoveredCube # NoCube THEN <<[r |-> newHoveredCube, v |-> TRUE]>>
        ELSE <<>>)
       \o (IF hoveredCube # NoCube THEN <<[r |-> hoveredCube, v |-> FALSE]>> ELSE <<>>)
  ELSE <<>>

\* lines 79-83 of main(): the calls made, in order, when the hit changes
hoverCalls(newHoveredCube) ==
  IF newHoveredCube # hoveredCube
  THEN (IF hoveredCube # NoCube THEN <<[r |-> hoveredCube, v |-> FALSE]>> ELSE <<>>)
       \o (IF newHoveredCube # NoCube THEN <<[r |-> newHoveredCube, v |-> TRUE]>>
           ELSE <<>>)
  ELSE <<>>

\* unhoverCalls that drops the reference without clearing the cube
unhoverCallsNone == <<>>

\* the else branch (lines 84-89): the overlay is visible
unhoverCalls ==
  IF hoveredCube # NoCube THEN <<[r |-> hoveredCube, v |-> FALSE]>> ELSE <<>>

\* the cube states after the setHovered calls, in order, and the largest
\* number of cubes hovered at once on the way
RECURSIVE applyCalls(_, _, _, _)
applyCalls(cs, calls, i, peak) ==
  IF i > Len(calls) THEN [cubes |-> cs, peak |-> peak]
  ELSE LET next == setHovered(cs, calls[i].r, calls[i].v)
       IN applyCalls(next, calls, i + 1, Max(peak, hoveredCount(next)))

\* the hover step of the render loop, given the overlay state read at the
\* start of the frame and the renderer the ray hits (NoCube: none)
hoverUpdate(cs, overlayWasVisible, hit) ==
  LET calls == IF ~overlayWasVisible THEN hoverCalls(hit) ELSE unhoverCalls
      done == applyCalls(cs, calls, 1, hoveredCount(cs))
  IN [cubes |-> done.cubes, peak |-> done.peak, calls |-> calls,
      hoveredCube |-> IF ~overlayWasVisible THEN hit ELSE NoCube]

----------------------------------------------------------------------------
\* Bounds of the model and the sets inputs are drawn from

MaxCubes == 2
MaxCount == 5
MaxFrames == 2
MaxTicks == 3
MaxLook == 500
StreamLen == 2
ManyCubes == 19
MaxRenderers == 3
StrideTicks == 2

RandVals == {0, 500, 999}
Streams == [1..StreamLen -> RandVals]
LongStreams == [1..(StreamLen + 1) -> RandVals]

\* the record of the last operation
NoOp ==
  [op |-> "init", key |-> "", repeat |-> FALSE, vis |-> FALSE,
   ret |-> FALSE, vec |-> Zero2, calls |-> <<>>, peak |-> 0, served |-> 0,
   dt |-> 0, atTarget |-> {}, order |-> <<>>]

Op(op) == [NoOp EXCEPT !.op = op, !.vis = overlayVisible, !.served = last.served]

\* served after a call of consumeJump that returned ret: the number of calls
\* of consumeJump that have returned true since the latest jump request edge
\* (a press of Space that was not held, or requestJump), counted up to 2
servedAfter(ret) == IF ret /\ last.served < 2 THEN last.served + 1 ELSE last.served

\* the ids of the cubes whose target coincides with their planar position
atTarget(cs) ==
  {cs[i].id : i \in {j \in 1..Len(cs) : cs[j].targetX = cs[j].x /\ cs[j].targetZ = cs[j].z}}

InLook(ld) == Abs(ld.x) <= MaxLook /\ Abs(ld.y) <= MaxLook

----------------------------------------------------------------------------
\* Initial state: main() up to the await of loadAndSpawnCubes

Init ==
  /\ keys = {} /\ lookDelta = Zero2 /\ isPointerLocked = FALSE
  /\ isDragging = FALSE /\ lastPointerPos = Zero2 /\ jumpRequested = FALSE
  /\ joystickMovement = Zero2 /\ touchId = 0
  /\ held = {}
  /\ overlayVisible = FALSE /\ overlayInfo = NoCube
  /\ player = addPlayer /\ cubes = <<>>
  /\ cubeConfigs = {} /\ spawnedCubes = <<>> /\ positions = <<>>
  /\ entities = <<"player">>
  /\ phase = "loading" /\ hoveredCube = NoCube /\ frames = 0
  /\ last = NoOp

----------------------------------------------------------------------------
\* Events of the platform

\* window 'keydown': the listener of UISystem (registered first), then the
\* listener of InputManager.  A keydown of a key already down is a key-repeat.
KeyDown(code) ==
  LET closes == code \in CloseKeys /\ isVisible
      ui == IF closes THEN hide ELSE [visible |-> overlayVisible, info |-> overlayInfo]
      r == keydown(code, ui.visible)
  IN /\ held' = held \cup {code}
     /\ overlayVisible' = ui.visible
     /\ overlayInfo' = ui.info
     /\ keys' = r.keys
     /\ jumpRequested' = r.jumpRequested
     /\ last' = [Op("keydown") EXCEPT !.key = code, !.repeat = (code \in held),
                                      !.served = IF code = "Space" /\ code \notin held
                                                 THEN 0 ELSE last.served]
     /\ UNCHANGED <<lookDelta, isPointerLocked, isDragging, lastPointerPos,
                    joystickMovement, touchId, stateVars, spawnVars, mainVars>>

\* window 'keyup'
KeyUp(code) ==
  /\ code \in held
  /\ held' = held \ {code}
  /\ keys' = keyup(code, isVisible)
  /\ last' = [Op("keyup") EXCEPT !.key = code]
  /\ UNCHANGED <<lookDelta, isPointerLocked, isDragging, lastPointerPos,
                 jumpRequested, joystickMovement, touchId, uiVars, stateVars,
                 spawnVars, mainVars>>

\* 'mousemove' with movementX/Y = (mx, my) and clientX/Y = c: the listener on
\* document (pointer lock), then the listener on window (drag-to-look)
MouseMove(mx, my, c) ==
  LET ld1 == lockedMove(lookDelta, mx, my)
      ld2 == IF dragActive
             THEN [x |-> ld1.x + (c.x - lastPointerPos.x),
                   y |-> ld1.y + (c.y - lastPointerPos.y)]
             ELSE ld1
  IN /\ InLook(ld2)
     /\ lookDelta' = ld2
     /\ lastPointerPos' = IF dragActive THEN c ELSE lastPointerPos
     /\ last' = Op("mousemove")
     /\ UNCHANGED <<keys, isPointerLocked, isDragging, jumpRequested,
                    joystickMovement, touchId, held, uiVars, stateVars,
                    spawnVars, mainVars>>

\* canvas 'mousedown'
MouseDown(button, c) ==
  /\ IF ~isPointerLocked /\ button = 0 /\ ~isVisible
     THEN isDragging' = TRUE /\ lastPointerPos' = c
     ELSE UNCHANGED <<isDragging, lastPointerPos>>
  /\ last' = Op("mousedown")
  /\ UNCHANGED <<keys, lookDelta, isPointerLocked, jumpRequested,
                 joystickMovement, touchId, held, uiVars, stateVars, spawnVars,
                 mainVars>>

\* window 'mouseup'
MouseUp ==
  /\ isDragging' = FALSE
  /\ last' = Op("mouseup")
  /\ UNCHANGED <<keys, lookDelta, isPointerLocked, lastPointerPos,
                 jumpRequested, joystickMovement, touchId, held, uiVars,
                 stateVars, spawnVars, mainVars>>

\* document 'pointerlockchange': locked = (pointerLockElement === canvas)
PointerLockChange(locked) ==
  /\ isPointerLocked' = locked
  /\ last' = Op("pointerlockchange")
  /\ UNCHANGED <<keys, lookDelta, isDragging, lastPointerPos, jumpRequested,
                 joystickMovement, touchId, held, uiVars, stateVars, spawnVars,
                 mainVars>>

\* canvas 'touchstart' of the touch id at c; inLookArea: clientX is right of
\* the joystick area (clientX > window.innerWidth * 0.3)
TouchStart(id, c, inLookArea) ==
  /\ IF inLookArea
     THEN touchId' = id /\ lastPointerPos' = c
     ELSE UNCHANGED <<touchId, lastPointerPos>>
  /\ last' = Op("touchstart")
  /\ UNCHANGED <<keys, lookDelta, isPointerLocked, isDragging, jumpRequested,
                 joystickMovement, held, uiVars, stateVars, spawnVars, mainVars>>

\* canvas 'touchmove' of the touch id to c
TouchMove(id, c) ==
  LET r == touchmove(id, c)
  IN /\ InLook(r.lookDelta)
     /\ lookDelta' = r.lookDelta
     /\ lastPointerPos' = r.lastPointerPos
     /\ last' = Op("touchmove")
     /\ UNCHANGED <<keys, isPointerLocked, isDragging, jumpRequested,
                    joystickMovement, touchId, held, uiVars, stateVars,
                    spawnVars, mainVars>>

\* canvas 'touchend' of the touch id
TouchEnd(id) ==
  /\ touchId' = IF id = touchId THEN 0 ELSE touchId
  /\ last' = Op("touchend")
  /\ UNCHANGED <<keys, lookDelta, isPointerLocked, isDragging, lastPointerPos,
                 jumpRequested, joystickMovement, held, uiVars, stateVars,
                 spawnVars, mainVars>>

\* MobileControls: joystick 'move' with data.vector = v, and 'end' (v = 0)
JoystickMove(v) ==
  /\ joystickMovement' = v
  /\ last' = Op("joystick")
  /\ UNCHANGED <<keys, lookDelta, isPointerLocked, isDragging, lastPointerPos,
                 jumpRequested, touchId, held, uiVars, stateVars, spawnVars,
                 mainVars>>

\* MobileControls: 'touchstart' on the jump button
JumpButton ==
  /\ jumpRequested' = requestJump
  /\ last' = [Op("requestJump") EXCEPT !.served = 0]
  /\ UNCHANGED <<keys, lookDelta, isPointerLocked, isDragging, lastPointerPos,
                 joystickMovement, touchId, held, uiVars, stateVars, spawnVars,
                 mainVars>>

\* InfoCube.activate() of renderer r: UISystem.show with its config
activate(r) == show(spawnedCubes[r])

\* clickHonoured without the test of the overlay
clickHonouredAnyOverlay == phase = "running" /\ hoveredCube # NoCube

\* the condition of the click handler of main(), which exists once
\* loadAndSpawnCubes has returned
clickHonoured == phase = "running" /\ hoveredCube # NoCube /\ ~isVisible

\* canvas 'click': the listener of InputManager (it only requests the pointer
\* lock, which arrives as a pointerlockchange), then the click handler of main()
CanvasClick ==
  LET honoured == clickHonoured
      ui == IF honoured THEN activate(hoveredCube)
            ELSE [visible |-> overlayVisible, info |-> overlayInfo]
  IN /\ overlayVisible' = ui.visible
     /\ overlayInfo' = ui.info
     /\ last' = [Op("click") EXCEPT !.ret = honoured]
     /\ UNCHANGED <<inputVars, held, stateVars, spawnVars, mainVars>>

\* click on the close button or on the overlay outside the card
CloseClick ==
  /\ overlayVisible' = hide.visible
  /\ overlayInfo' = hide.info
  /\ last' = Op("close")
  /\ UNCHANGED <<inputVars, held, stateVars, spawnVars, mainVars>>

----------------------------------------------------------------------------
\* main(): startup and the render loop

\* SpawnSystem.loadAndSpawnCubes when the fetch yields count configs, with
\* ids 1 .. count
LoadAndSpawn(count, rs) ==
  /\ phase = "loading"
  /\ LET gen == generateDistributedPositions(count, rs)
         cs == addCubes(cubes, gen.ps, rs, gen.k)
         configs == cubeConfigs \cup 1..count
         made == renderersFrom(cs, configs)
     IN /\ cubeConfigs' = configs
        /\ positions' = gen.ps
        /\ cubes' = cs
        /\ spawnedCubes' = spawnedCubes \o made
        /\ entities' = entities \o [i \in 1..Len(made) |-> "cube"]
  /\ phase' = "running"
  /\ last' = Op("load")
  /\ UNCHANGED <<inputVars, held, uiVars, player, hoveredCube, frames>>

\* a failure that comes after the configs of the body were stored
LoadFailAfterConfigs ==
  /\ phase = "loading"
  /\ phase' = "failed"
  /\ cubeConfigs' = {1}
  /\ last' = Op("loadfail")
  /\ UNCHANGED <<inputVars, held, uiVars, stateVars, spawnedCubes, positions,
                 entities, hoveredCube, frames>>

\* the fetch rejects or the body does not parse: main() ends in its catch
LoadFail ==
  /\ phase = "loading"
  /\ phase' = "failed"
  /\ last' = Op("loadfail")
  /\ UNCHANGED <<inputVars, held, uiVars, stateVars, spawnVars, hoveredCube, frames>>

\* the steps of the callback with world.update ahead of simulateCubes
frameStepsWorldFirst ==
  <<"inputManager.update", "world.update", "simulateCubes", "hover">>

\* the steps of the callback given to engine.run, in the order of its
\* statements
frameSteps ==
  <<"inputManager.update", "simulateCubes", "world.update", "hover">>

\* the steps of a frame other than the hover step, from step i of steps on,
\* on the state of the frame so far: the cube states, the outcome of
\* Player.update, and the updates made, in order.  inputManager.update has
\* an empty body; world.update updates the entities in the order they were
\* added, and the update of an InfoCube copies its state to its mesh
RECURSIVE runSteps(_, _, _, _, _)
runSteps(steps, i, fs, dt, rs) ==
  IF i > Len(steps) THEN fs
  ELSE LET name == steps[i]
           next == CASE name = "simulateCubes" ->
                          [fs EXCEPT !.cubes = simulateCubes(fs.cubes, dt, rs),
                                     !.order = Append(@, name)]
                     [] name = "world.update" ->
                          [fs EXCEPT !.pu = playerUpdate(dt),
                                     !.order = @ \o entities]
                     [] OTHER -> [fs EXCEPT !.order = Append(@, name)]
       IN runSteps(steps, i + 1, next, dt, rs)

\* one frame of the render loop: the callback given to engine.run, with
\* deltaTime = dt; the ray hits the mesh of one of the renderers or none
\* (hit = NoCube)
Frame(dt, rs) ==
  /\ phase = "running"
  /\ frames < MaxFrames
  /\ LET overlayWasVisible == isVisible
         h == CHOOSE i \in 1..Len(frameSteps) : frameSteps[i] = "hover"
         start == [cubes |-> cubes, order |-> <<>>,
                   pu |-> [player |-> player, jumpRequested |-> jumpRequested,
                           lookDelta |-> lookDelta, jumped |-> FALSE,
                           look |-> Zero2]]
     IN \E before \in {runSteps(SubSeq(frameSteps, 1, h - 1), 1, start, dt, rs)},
           hit \in 0..Len(spawnedCubes) :
          LET hv == hoverUpdate(before.cubes, overlayWasVisible, hit)
              hovered == [before EXCEPT
                            !.cubes = hv.cubes,
                            !.order = Append(@, IF overlayWasVisible
                                                THEN "unhover" ELSE "raycast")]
          IN \E done \in {runSteps(SubSeq(frameSteps, h + 1, Len(frameSteps)), 1,
                                     hovered, dt, rs)} :
               /\ player' = done.pu.player
               /\ jumpRequested' = done.pu.jumpRequested
               /\ lookDelta' = done.pu.lookDelta
               /\ cubes' = done.cubes
               /\ hoveredCube' = hv.hoveredCube
               /\ last' = [Op("frame") EXCEPT
                             !.ret = done.pu.jumped, !.vec = done.pu.look,
                             !.calls = hv.calls, !.peak = hv.peak,
                             !.order = Append(done.order, "render")]
  /\ frames' = frames + 1
  /\ UNCHANGED <<keys, isPointerLocked, isDragging, lastPointerPos,
                 joystickMovement, touchId, held, uiVars, spawnVars, phase>>

----------------------------------------------------------------------------
\* Calls of the public methods, one at a time

CallGetMovement ==
  /\ last' = [Op("getMovement") EXCEPT !.vec = getMovement]
  /\ UNCHANGED <<inputVars, held, uiVars, stateVars, spawnVars, mainVars>>

CallGetLookDelta ==
  /\ lookDelta' = getLookDelta.lookDelta
  /\ last' = [Op("getLookDelta") EXCEPT !.vec = getLookDelta.ret]
  /\ UNCHANGED <<keys, isPointerLocked, isDragging, lastPointerPos,
                 jumpRequested, joystickMovement, touchId, held, uiVars,
                 stateVars, spawnVars, mainVars>>

CallConsumeJump ==
  /\ jumpRequested' = consumeJump.jumpRequested
  /\ last' = [Op("consumeJump") EXCEPT !.ret = consumeJump.ret,
                                       !.served = servedAfter(consumeJump.ret)]
  /\ UNCHANGED <<keys, lookDelta, isPointerLocked, isDragging, lastPointerPos,
                 joystickMovement, touchId, held, uiVars, stateVars, spawnVars,
                 mainVars>>

\* UISystem.show(info)
CallShow(info) ==
  /\ overlayVisible' = show(info).visible
  /\ overlayInfo' = show(info).info
  /\ last' = Op("show")
  /\ UNCHANGED <<inputVars, held, stateVars, spawnVars, mainVars>>

\* Player.update(deltaTime)
PlayerTick(dt) ==
  /\ frames < MaxTicks
  /\ LET pu == playerUpdate(dt)
     IN /\ player' = pu.player
        /\ jumpRequested' = pu.jumpRequested
        /\ lookDelta' = pu.lookDelta
        /\ last' = [Op("update") EXCEPT !.ret = pu.jumped, !.vec = pu.look,
                                        !.dt = dt]
  /\ frames' = frames + 1
  /\ UNCHANGED <<keys, isPointerLocked, isDragging, lastPointerPos,
                 joystickMovement, touchId, held, uiVars, cubes, spawnVars,
                 phase, hoveredCube>>

\* StateManager.addCube(id, position): state.cubes[id] is set, a new key
\* last in the order of Object.values
AddCube(id, pos, rs) ==
  /\ LET new == addCube(id, pos, rs, 1)
         at == {i \in 1..Len(cubes) : cubes[i].id = id}
     IN cubes' = IF at = {} THEN Append(cubes, new)
                 ELSE [i \in 1..Len(cubes) |-> IF i \in at THEN new ELSE cubes[i]]
  /\ last' = Op("addCube")
  /\ UNCHANGED <<inputVars, held, uiVars, player, spawnVars, mainVars>>

\* SpawnSystem.setConfigs(configs), with the ids of the configs
SetConfigs(ids) ==
  /\ cubeConfigs' = cubeConfigs \cup ids
  /\ last' = Op("setConfigs")
  /\ UNCHANGED <<inputVars, held, uiVars, stateVars, spawnedCubes, positions,
                 entities, mainVars>>

\* SpawnSystem.createRenderersFromState()
CreateRenderersFromState ==
  /\ Len(spawnedCubes) < MaxRenderers
  /\ LET made == renderersFrom(cubes, cubeConfigs)
     IN /\ spawnedCubes' = spawnedCubes \o made
        /\ entities' = entities \o [i \in 1..Len(made) |-> "cube"]
  /\ last' = Op("createRenderersFromState")
  /\ UNCHANGED <<inputVars, held, uiVars, stateVars, cubeConfigs, positions,
                 mainVars>>

\* StateManager.fromJSON(json), with a snapshot that is the present state
\* but for the targets of the cubes, each at offset d of its cube
FromJSON(d) ==
  /\ phase = "running"
  /\ cubes' = [i \in 1..Len(cubes) |->
                [cubes[i] EXCEPT !.targetX = cubes[i].x + d.x,
                                 !.targetZ = cubes[i].z + d.z]]
  /\ last' = Op("fromJSON")
  /\ UNCHANGED <<inputVars, held, uiVars, player, spawnVars, mainVars>>

\* StateManager.simulateCubes(deltaTime)
SimulateTick(dt, rs) ==
  /\ phase = "running"
  /\ frames < MaxTicks
  /\ cubes' = simulateCubes(cubes, dt, rs)
  /\ frames' = frames + 1
  /\ last' = [Op("simulateCubes") EXCEPT !.atTarget = atTarget(cubes), !.dt = dt]
  /\ UNCHANGED <<inputVars, held, uiVars, player, spawnVars, phase, hoveredCube>>

\* Player.update(deltaTime), frame after frame
PlayerStep(dt) ==
  /\ LET pu == playerUpdate(dt)
     IN /\ player' = pu.player
        /\ jumpRequested' = pu.jumpRequested
        /\ lookDelta' = pu.lookDelta
        /\ last' = [Op("step") EXCEPT !.ret = pu.jumped, !.dt = dt]
  /\ UNCHANGED <<keys, isPointerLocked, isDragging, lastPointerPos,
                 joystickMovement, touchId, held, uiVars, cubes, spawnVars,
                 mainVars>>

----------------------------------------------------------------------------
\* Specifications

\* the program on a desktop: main() with the keyboard, the mouse under
\* pointer lock, and the overlay
MainKeys == {"Space"}
MainDts == {100}
MainStreams == {[i \in 1..StreamLen |-> 500]}
Pointer == {[x |-> 0, y |-> 0], [x |-> 300, y |-> 0]}
MouseDeltas == {[x |-> 500, y |-> 0]}

Next ==
  \/ \E n \in 0..MaxCubes, rs \in MainStreams : LoadAndSpawn(n, rs)
  \/ LoadFail
  \/ \E code \in MainKeys : KeyDown(code)
  \/ \E code \in MainKeys : KeyUp(code)
  \/ \E d \in MouseDeltas : MouseMove(d.x, d.y, [x |-> 0, y |-> 0])
  \/ \E b \in BOOLEAN : PointerLockChange(b)
  \/ CanvasClick
  \/ CloseClick
  \/ \E dt \in MainDts, rs \in MainStreams : Frame(dt, rs)

Spec == Init /\ [][Next]_vars

\* the InputManager and the UISystem alone: keyboard, joystick, jump button
\* and touch look, the overlay, and the three accessors
InputKeys == {"Space", "KeyW", "KeyQ"}
JoystickVectors == {Zero2, [x |-> 600, y |-> 800]}

NextInput ==
  \/ \E code \in InputKeys : KeyDown(code)
  \/ \E code \in InputKeys : KeyUp(code)
  \/ \E c \in Pointer, a \in BOOLEAN : TouchStart(1, c, a)
  \/ \E c \in Pointer : TouchMove(1, c)
  \/ TouchEnd(1)
  \/ \E v \in JoystickVectors : JoystickMove(v)
  \/ JumpButton
  \/ CallShow(1)
  \/ CloseClick
  \/ CallGetMovement
  \/ CallGetLookDelta
  \/ CallConsumeJump

SpecInput == Init /\ [][NextInput]_vars

\* the look input alone: mouse under pointer lock, drag-to-look, touch
LookDeltas == {[x |-> 200, y |-> 0], [x |-> 0, y |-> -300]}

NextLook ==
  \/ \E d \in LookDeltas, c \in Pointer : MouseMove(d.x, d.y, c)
  \/ \E c \in Pointer : MouseDown(0, c)
  \/ MouseUp
  \/ \E b \in BOOLEAN : PointerLockChange(b)
  \/ \E c \in Pointer : TouchStart(1, c, TRUE)
  \/ \E c \in Pointer : TouchMove(1, c)
  \/ TouchEnd(1)
  \/ CallShow(1)
  \/ CloseClick
  \/ CallGetLookDelta

SpecLook == Init /\ [][NextLook]_vars

\* the Player alone, walking: Player.update driven by the movement keys and
\* the mouse look
WalkKeys == {"KeyW", "KeyD"}
WalkDts == {4000}
WalkLook == {[x |-> 400, y |-> 0]}

NextPlayer ==
  \/ \E code \in WalkKeys : KeyDown(code)
  \/ \E code \in WalkKeys : KeyUp(code)
  \/ \E d \in WalkLook : MouseMove(d.x, d.y, Zero2)
  \/ \E b \in BOOLEAN : PointerLockChange(b)
  \/ \E dt \in WalkDts : PlayerTick(dt)

SpecPlayer == Init /\ [][NextPlayer]_vars

\* the cubes alone: the placement planner, addCube and simulateCubes
CubeDts == {1000, 8000}

NextCubes ==
  \/ \E n \in 0..MaxCount, rs \in LongStreams : LoadAndSpawn(n, rs)
  \/ \E dt \in CubeDts, rs \in Streams : SimulateTick(dt, rs)

SpecCubes == Init /\ [][NextCubes]_vars

\* the placement planner alone: loadAndSpawnCubes for the small counts and
\* for one count large enough for the ring pass to fall short
PlannerCounts == (0..MaxCount) \cup {ManyCubes}

NextPlanner == \E n \in PlannerCounts, rs \in LongStreams : LoadAndSpawn(n, rs)

SpecPlanner == Init /\ [][NextPlanner]_vars

\* the wandering of the cubes from snapshots in which the target of a cube
\* is at its position, just inside and just outside the distance of 0.5 at
\* which it counts as reached, and far away
TargetOffsets ==
  {Zero2, [x |-> 49, y |-> 0], [x |-> 0, y |-> 50], [x |-> 150, y |-> 200],
   [x |-> 300, y |-> 400]}

\* the streams that repeat one draw
FlatStreams == {[i \in 1..(StreamLen + 1) |-> u] : u \in RandVals}

NextWander ==
  \/ \E n \in 1..MaxCubes, rs \in FlatStreams : LoadAndSpawn(n, rs)
  \/ \E d \in TargetOffsets : FromJSON([x |-> d.x, z |-> d.y])
  \/ \E dt \in CubeDts, rs \in FlatStreams : SimulateTick(dt, rs)

SpecWander == Init /\ [][NextWander]_vars

\* the renderers made from state: cube states added one by one, configs set
\* for any of the ids, and createRenderersFromState
CubeIds == 1..(MaxCubes + 1)
SpawnPoint == [x |-> 2000, z |-> 0]

NextRenderers ==
  \/ \E id \in CubeIds, rs \in MainStreams : AddCube(id, SpawnPoint, rs)
  \/ \E id \in CubeIds : SetConfigs({id})
  \/ CreateRenderersFromState

SpecRenderers == Init /\ [][NextRenderers]_vars

\* the Player behind the overlay: Player.update with a movement key, jumps
\* and mouse look, the overlay opening and closing between the updates
GateKeys == {"KeyW", "Space"}
GateDts == {100}

NextGate ==
  \/ \E code \in GateKeys : KeyDown(code)
  \/ \E code \in GateKeys : KeyUp(code)
  \/ \E d \in WalkLook : MouseMove(d.x, d.y, Zero2)
  \/ \E b \in BOOLEAN : PointerLockChange(b)
  \/ CallShow(1)
  \/ CloseClick
  \/ \E dt \in GateDts : PlayerTick(dt)

SpecGate == Init /\ [][NextGate]_vars

\* the look of the player: mouse movements under pointer lock, up, down and
\* sideways, as large as the accumulator of the model holds, and Player.update
PitchLook == {[x |-> 0, y |-> MaxLook], [x |-> 0, y |-> -MaxLook],
              [x |-> MaxLook, y |-> 0]}

NextPitch ==
  \/ \E d \in PitchLook : MouseMove(d.x, d.y, Zero2)
  \/ \E b \in BOOLEAN : PointerLockChange(b)
  \/ \E dt \in GateDts : PlayerTick(dt)

SpecPitch == Init /\ [][NextPitch]_vars

\* the targets of the cubes: cube states added inside the usable disc, on
\* its edge and beyond it, and simulateCubes
EdgePoints == {SpawnPoint, [x |-> radius - boundaryBuffer, z |-> 0],
               [x |-> 0, z |-> radius - boundaryBuffer + Unit]}

NextTargets ==
  \/ \E rs \in MainStreams : LoadAndSpawn(0, rs)
  \/ \E id \in 1..MaxCubes, pos \in EdgePoints, rs \in MainStreams :
       AddCube(id, pos, rs)
  \/ \E dt \in CubeDts, rs \in FlatStreams : SimulateTick(dt, rs)

SpecTargets == Init /\ [][NextTargets]_vars

\* the vertical motion of the player: jumps, the overlay opening and closing,
\* and Player.update without end; the render loop calls it on every frame,
\* and a frame that takes time has deltaTime > 0
FallDts == {0, 50, 100, 4000}

NextFall ==
  \/ KeyDown("Space")
  \/ KeyUp("Space")
  \/ CallShow(1)
  \/ CloseClick
  \/ \E dt \in FallDts : PlayerStep(dt)

SpecFall ==
  Init /\ [][NextFall]_vars /\ WF_vars(\E dt \in FallDts \ {0} : PlayerStep(dt))

----------------------------------------------------------------------------
\* Hover and activation (Spec)

\* C1: at most one cube is hovered in every state, also between the two
\* setHovered calls of a frame, and a frame that moves the hover from one cube
\* to another clears the previous cube before it sets the new one
HoverExclusive ==
  /\ hoveredCount(cubes) <= 1
  /\ last.op = "frame" =>
       /\ last.peak <= 1
       /\ \A i, j \in 1..Len(last.calls) :
            (~last.calls[i].v /\ last.calls[j].v) => i < j

\* a frame has moved the hover from one cube to another
HoverMoved ==
  /\ last.op = "frame"
  /\ Len(last.calls) = 2
  /\ last.calls[1].r # last.calls[2].r
  /\ hoveredCount(cubes) = 1

\* C2 as claimed: in every state in which the overlay is visible no cube is
\* hovered and hoveredCube is null
NoHoverWhileOverlay ==
  overlayVisible => (hoveredCube = NoCube /\ hoveredCount(cubes) = 0)

\* C2 as amended: a frame that runs with the overlay visible ends with no cube
\* hovered and hoveredCube null, and that stays so for as long as the overlay
\* stays visible
NoHoverAfterOverlayFrame ==
  [][/\ (overlayVisible /\ last'.op = "frame") =>
          (hoveredCube' = NoCube /\ hoveredCount(cubes') = 0)
     /\ (overlayVisible /\ overlayVisible'
           /\ hoveredCube = NoCube /\ hoveredCount(cubes) = 0) =>
          (hoveredCube' = NoCube /\ hoveredCount(cubes') = 0)]_vars

\* a frame run with the overlay visible has cleared the hovered cube
OverlayFrameUnhovered ==
  /\ overlayVisible
  /\ last.op = "frame"
  /\ Len(last.calls) = 1
  /\ ~last.calls[1].v
  /\ hoveredCube = NoCube

\* C3: a canvas click activates (opens the overlay with the hovered cube's
\* content) exactly when a hovered cube is tracked and the overlay is not
\* visible; any other click leaves the overlay as it is; nothing else opens it
ClickActivatesOnlyHovered ==
  [][/\ last'.op = "click" =>
          /\ last'.ret <=> (hoveredCube # NoCube /\ ~overlayVisible)
          /\ last'.ret => (overlayVisible' /\ overlayInfo' = spawnedCubes[hoveredCube])
          /\ ~last'.ret => UNCHANGED <<overlayVisible, overlayInfo>>
     /\ (~overlayVisible /\ overlayVisible') => (last'.op = "click" /\ last'.ret)]_vars

\* a click has opened the overlay on the hovered cube
ClickActivated ==
  /\ last.op = "click"
  /\ last.ret
  /\ overlayVisible
  /\ hoveredCube # NoCube
  /\ overlayInfo = spawnedCubes[hoveredCube]

----------------------------------------------------------------------------
\* The input contract (SpecInput)

\* C4: a Space key-down with the overlay closed, or requestJump, latches a
\* jump; with the overlay closed consumeJump returns the latch and clears it,
\* so a consumeJump that directly follows another consumeJump returns false
JumpOneShot ==
  [][/\ (last'.op = "requestJump"
           \/ (last'.op = "keydown" /\ last'.key = "Space" /\ ~overlayVisible))
          => jumpRequested'
     /\ last'.op = "consumeJump" =>
          /\ ~jumpRequested'
          /\ ~overlayVisible => (last'.ret <=> jumpRequested)
          /\ last.op = "consumeJump" => ~last'.ret]_vars

\* a consumeJump has returned true with the overlay closed
JumpConsumed ==
  /\ last.op = "consumeJump"
  /\ last.ret
  /\ ~last.vis
  /\ ~jumpRequested

\* C5 as claimed: between two presses of Space (key-down events of a key that
\* is not held) or requestJump calls, consumeJump returns true at most once,
\* whatever repeated key-down events the held key delivers
JumpOncePerPress == last.served <= 1

\* C6: with the overlay visible getMovement returns (0,0), getLookDelta
\* returns (0,0) and leaves the accumulated delta at (0,0), and consumeJump
\* returns false and leaves no jump latched, on every call
NeutralWhileOverlay ==
  /\ (last.vis /\ last.op = "getMovement") => last.vec = Zero2
  /\ (last.vis /\ last.op = "getLookDelta") => (last.vec = Zero2 /\ lookDelta = Zero2)
  /\ (last.vis /\ last.op = "consumeJump") => (~last.ret /\ ~jumpRequested)

\* getMovement has been called with the overlay visible while a movement key
\* is down and the joystick is off centre
NeutralMovementRead ==
  /\ last.op = "getMovement"
  /\ last.vis
  /\ "KeyW" \in keys
  /\ joystickMovement # Zero2

\* C7 as claimed: the frame that directly follows the closing of the overlay,
\* with no input event in between, applies no look delta and no jump
NoCarryOver ==
  [][(last.op = "close" /\ last.vis /\ last'.op = "frame")
       => (last'.vec = Zero2 /\ ~last'.ret)]_vars

----------------------------------------------------------------------------
\* Bounds and placement

\* C8: the player's planar distance from the centre is at most radius - 1
\* after every Player.update, for every sequence of keys and look input
PlayerInBounds == Length(player.x, player.z) <= radius - 1 * Unit

\* an update has clamped the player onto the circle of radius - 1 (the
\* truncation of the two coordinates loses at most two hundredths)
PlayerClamped ==
  /\ last.op = "update"
  /\ Length(player.x, player.z) >= radius - 1 * Unit - 2
  /\ Length(player.x, player.z) <= radius - 1 * Unit

\* C9 as claimed: every cube, as spawned and after every simulateCubes tick,
\* is at planar distance at most radius - boundaryBuffer from the centre
CubesInBounds ==
  \A i \in 1..Len(cubes) :
    Length(cubes[i].x, cubes[i].z) <= radius - boundaryBuffer

\* C10: a position that the planner placed by the ring pass or by rejection
\* sampling is at distance >= minDistanceBetweenCubes from every position
\* placed before it
PlacementSeparated ==
  \A i \in 1..Len(positions) : \A j \in 1..(i - 1) :
    positions[i].via # "fallback" =>
      Length(positions[i].x - positions[j].x, positions[i].z - positions[j].z)
        >= minDistanceBetweenCubes

\* the planner has returned a layout in which rejection sampling placed a
\* position after the ring pass had placed others
SampledPlacement ==
  /\ phase = "running"
  /\ Len(positions) >= 3
  /\ \E i \in 2..Len(positions) : positions[i].via = "random"
  /\ \A i \in 1..Len(positions) : positions[i].via # "fallback"

\* C11: the planner returns exactly as many positions as it was asked for,
\* the empty list for a count of 0; loadAndSpawnCubes asks for one position
\* per config and adds one cube state per position
PlannerReturnsCount ==
  phase = "running" =>
    /\ Len(positions) = Cardinality(cubeConfigs)
    /\ Len(cubes) = Len(positions)
    /\ (cubeConfigs = {} => positions = <<>>)

\* the planner has returned a full layout of which the ring pass fell short
ShortfallFilled ==
  /\ phase = "running"
  /\ Len(positions) = Cardinality(cubeConfigs)
  /\ \E i \in 1..Len(positions) : positions[i].via # "ring"

\* C12: the planner asked for one position returns exactly one, and it is at
\* distance >= minDistanceFromCenter of the world centre
SinglePlacementClear ==
  (phase = "running" /\ cubeConfigs = {1}) =>
    /\ Len(positions) = 1
    /\ Length(positions[1].x, positions[1].z) >= minDistanceFromCenter

\* the planner has placed a single position that the jitter pulled inside
\* the radius of its ring
SinglePlacementJittered ==
  /\ phase = "running"
  /\ cubeConfigs = {1}
  /\ Len(positions) = 1
  /\ Length(positions[1].x, positions[1].z) < radius - edgePadding

----------------------------------------------------------------------------
\* The vertical motion of the player (SpecFall)

\* C13: an airborne player reaches position.y = groundY after finitely many
\* ticks with deltaTime > 0, the overlay open or closed, and a tick with
\* deltaTime > 0 of a player that has come down to groundY (it is at groundY
\* and not moving up) and takes no jump ends with position.y = groundY and
\* velocityY = 0
FallEndsOnGround ==
  /\ (player.y > groundY) ~> (player.y = groundY)
  /\ [][(/\ player.y = groundY /\ player.velocityY <= 0
          /\ last'.op = "step" /\ last'.dt > 0 /\ ~last'.ret)
         => (player'.y = groundY /\ player'.velocityY = 0)]_vars

\* the player is falling, after a tick that ran with the overlay visible
FallingBehindOverlay ==
  /\ last.op = "step"
  /\ last.vis
  /\ player.y > groundY
  /\ player.velocityY < 0

----------------------------------------------------------------------------
\* The wandering of the cubes (SpecWander)

\* the targets simulateCubes can pick
NewTargets ==
  {discPoint(radius - boundaryBuffer, u, v) : u \in RandVals, v \in RandVals}

\* C14: a tick of simulateCubes leaves a cube whose target coincided with its
\* planar position where it was and gives it a new target, and no planar
\* coordinate of a cube is ever NaN
RetargetAtTarget ==
  /\ [](\A i \in 1..Len(cubes) : cubes[i].x # NaN /\ cubes[i].z # NaN)
  /\ [][last'.op = "simulateCubes" =>
         \A i \in 1..Len(cubes) :
           (cubes[i].targetX = cubes[i].x /\ cubes[i].targetZ = cubes[i].z) =>
             /\ cubes'[i].x = cubes[i].x
             /\ cubes'[i].z = cubes[i].z
             /\ [x |-> cubes'[i].targetX, z |-> cubes'[i].targetZ] \in NewTargets]_vars

\* a tick of simulateCubes has run on a cube that was at its target and is
\* away from the edge, and the cube's target is now elsewhere
RetargetedInPlace ==
  /\ last.op = "simulateCubes"
  /\ \E i \in 1..Len(cubes) :
       /\ cubes[i].id \in last.atTarget
       /\ Length(cubes[i].x, cubes[i].z) < radius - boundaryBuffer
       /\ (cubes[i].targetX # cubes[i].x \/ cubes[i].targetZ # cubes[i].z)

----------------------------------------------------------------------------
\* Startup (Spec)

\* C15: after a failed load no config is stored, no cube state and no
\* renderer exists, the world holds the player alone, the load is not tried
\* again and no frame of the render loop has run
FailedLoadSpawnsNothing ==
  phase = "failed" =>
    /\ cubeConfigs = {} /\ positions = <<>>
    /\ cubes = <<>> /\ spawnedCubes = <<>>
    /\ entities = <<"player">>
    /\ hoveredCube = NoCube
    /\ frames = 0
    /\ player = addPlayer

\* the load has failed and the page went on to handle a key event
FailedLoadThenEvent ==
  /\ phase = "failed"
  /\ last.op = "keydown"

----------------------------------------------------------------------------
\* Renderers from state (SpecRenderers)

\* the number of renderers of the cube with this id
renderersOf(rs, id) == Cardinality({i \in 1..Len(rs) : rs[i] = id})

\* the cube states that have a config
configured == {i \in 1..Len(cubes) : cubes[i].id \in cubeConfigs}

\* C16: a call of createRenderersFromState adds one renderer, and one entity
\* to the world, for each cube state whose id has a config, and none for a
\* cube state whose id has none, wherever in the state the latter comes
RenderersForConfigured ==
  [][last'.op = "createRenderersFromState" =>
       /\ \A i \in 1..Len(cubes) :
            renderersOf(spawnedCubes', cubes[i].id)
              = renderersOf(spawnedCubes, cubes[i].id)
                  + (IF cubes[i].id \in cubeConfigs THEN 1 ELSE 0)
       /\ Len(spawnedCubes') = Len(spawnedCubes) + Cardinality(configured)
       /\ Len(entities') = Len(entities) + Cardinality(configured)]_vars

\* createRenderersFromState has made a renderer for a cube state that comes
\* after a cube state without a config, and none for the latter
SkippedThenSpawned ==
  /\ last.op = "createRenderersFromState"
  /\ \E i, j \in 1..Len(cubes) :
       /\ i < j
       /\ cubes[i].id \notin cubeConfigs
       /\ renderersOf(spawnedCubes, cubes[i].id) = 0
       /\ cubes[j].id \in cubeConfigs
       /\ renderersOf(spawnedCubes, cubes[j].id) = 1

----------------------------------------------------------------------------
\* The order of a frame (Spec)

\* in the sequence seq both a and b occur, and every a before every b
Before(a, b, seq) ==
  /\ \E i \in 1..Len(seq) : seq[i] = a
  /\ \E j \in 1..Len(seq) : seq[j] = b
  /\ \A i, j \in 1..Len(seq) : (seq[i] = a /\ seq[j] = b) => i < j

\* C17 as claimed: in every frame the player is advanced before the cubes
\* are advanced
PlayerBeforeCubes ==
  last.op = "frame" => Before("player", "simulateCubes", last.order)

\* C17: in every frame the steps run in the order input update, simulation
\* of the cubes, update of the player, update of the cube renderers, hover
\* step (the ray is cast only if the overlay was hidden at the start of the
\* frame, else the hovered cube is un-hovered), render
FrameOrder ==
  last.op = "frame" =>
    /\ Before("inputManager.update", "simulateCubes", last.order)
    /\ Before("simulateCubes", "player", last.order)
    /\ \A i \in 1..Len(last.order) :
         last.order[i] = "cube" => Before("player", "cube", last.order)
    /\ IF last.vis
       THEN /\ Before("player", "unhover", last.order)
            /\ Before("unhover", "render", last.order)
            /\ \A i \in 1..Len(last.order) : last.order[i] # "raycast"
       ELSE /\ Before("player", "raycast", last.order)
            /\ Before("raycast", "render", last.order)
            /\ \A i \in 1..Len(last.order) :
                 last.order[i] = "cube" => Before("cube", "raycast", last.order)

\* a frame has run with cubes in the world and the overlay hidden
FrameWithCubes ==
  /\ last.op = "frame"
  /\ ~last.vis
  /\ Len(cubes) >= 1
  /\ Len(last.order) >= 6

\* the updates of a frame include a cast of the hover ray
rayCast(order) == \E i \in 1..Len(order) : order[i] = "raycast"

\* C18: a frame leaves the overlay as it found it, and every reader of the
\* overlay gate in the frame acts on the value the overlay had at the start
\* of the frame: with the overlay hidden the ray is cast, consumeJump
\* returns the latch and getLookDelta the pending delta; with the overlay
\* visible no ray is cast and no cube stays hovered, consumeJump returns
\* false, and Player.update applies neither look nor movement
GateReadConsistent ==
  [][last'.op = "frame" =>
       /\ overlayVisible' = overlayVisible
       /\ overlayInfo' = overlayInfo
       /\ last'.vis = overlayVisible
       /\ IF overlayVisible
          THEN /\ ~rayCast(last'.order)
               /\ hoveredCube' = NoCube
               /\ ~last'.ret
               /\ last'.vec = Zero2
               /\ lookDelta' = lookDelta
               /\ player'.rotX = player.rotX /\ player'.rotY = player.rotY
               /\ player'.x = player.x /\ player'.z = player.z
          ELSE /\ rayCast(last'.order)
               /\ last'.ret = (isGrounded(player) /\ jumpRequested)
               /\ last'.vec = lookDelta
               /\ lookDelta' = Zero2]_vars

\* a frame has run with the overlay visible and a look delta pending
GatedFrameWithPendingLook ==
  /\ last.op = "frame"
  /\ last.vis
  /\ overlayVisible
  /\ lookDelta # Zero2

----------------------------------------------------------------------------
\* The Player behind the overlay (SpecGate)

\* C19: a Player.update that runs while the overlay is visible leaves the
\* yaw, the pitch and the horizontal position of the player unchanged
OverlayTickKeepsPose ==
  [][(last'.op = "update" /\ overlayVisible) =>
       /\ player'.rotY = player.rotY
       /\ player'.rotX = player.rotX
       /\ player'.x = player.x
       /\ player'.z = player.z]_vars

\* a Player.update has run with the overlay visible, a movement key down and
\* a look delta pending, and the player in the air
OverlayTickWithInput ==
  /\ last.op = "update"
  /\ last.vis
  /\ "KeyW" \in keys
  /\ lookDelta # Zero2
  /\ player.y > groundY

\* position.y after the integration step of Player.update, before the test
\* against groundY, when the update ran with deltaTime dt and took a jump or
\* not
integratedY(st, dt, jumped) ==
  LET v0 == IF jumped THEN jumpForce ELSE st.velocityY
  IN st.y + TDiv((v0 - TDiv(gravity * dt, Milli)) * dt, Milli)

\* C20: position.y >= groundY in every state, and an update whose
\* integration step puts position.y below groundY ends with position.y =
\* groundY and velocityY = 0
GroundContact ==
  /\ [](player.y >= groundY)
  /\ [][(last'.op = "step"
           /\ integratedY(player, last'.dt, last'.ret) < groundY)
         => (player'.y = groundY /\ player'.velocityY = 0)]_vars

\* an update with deltaTime > 0 and the overlay hidden has ended on the
\* ground at rest, the jump of the Space press that is still held taken by
\* an earlier update
LandedAfterJump ==
  /\ last.op = "step"
  /\ last.dt > 0
  /\ ~last.ret
  /\ ~last.vis
  /\ overlayInfo = NoCube
  /\ "Space" \in held
  /\ ~jumpRequested
  /\ player.y = groundY
  /\ player.velocityY = 0

\* C21: an update takes a jump only if the player is grounded at its start
\* and the latch is set, and the jump clears the latch; an update that starts
\* with the player in the air takes no jump, leaves the latch as it is and
\* integrates from the velocity the player had
JumpOnlyFromGround ==
  [][last'.op = "step" =>
       /\ last'.ret => (player.y <= groundY /\ jumpRequested /\ ~jumpRequested')
       /\ player.y > groundY =>
            /\ ~last'.ret
            /\ jumpRequested' = jumpRequested
            /\ player'.velocityY
                 \in {0, player.velocityY - TDiv(gravity * last'.dt, Milli)}
            /\ player'.y
                 \in {groundY, integratedY(player, last'.dt, FALSE)}]_vars

\* an update has run on a player in the air with the jump latched, and the
\* latch is still set
LatchKeptInAir ==
  /\ last.op = "step"
  /\ last.dt > 0
  /\ ~last.ret
  /\ ~last.vis
  /\ jumpRequested
  /\ player.y > groundY

----------------------------------------------------------------------------
\* The look of the player (SpecPitch)

\* C22: the pitch of the player is within [-MaxPitch, MaxPitch] in every
\* state, and an update adds the look delta it read, times the sensitivity,
\* to the yaw without a clamp and to the pitch with the clamp
PitchClamped ==
  /\ [](player.rotX >= -MaxPitch /\ player.rotX <= MaxPitch)
  /\ [][last'.op = "update" =>
         /\ player'.rotY = player.rotY + last'.vec.x * lookSensitivity
         /\ player'.rotX
              = Max(-MaxPitch,
                    Min(MaxPitch, player.rotX + last'.vec.y * lookSensitivity))]_vars

\* an update has left the pitch at its upper limit and the yaw beyond that
\* limit
PitchAtLimit ==
  /\ last.op = "update"
  /\ last.vec.y > 0
  /\ player.rotX = MaxPitch
  /\ player.rotY > MaxPitch

----------------------------------------------------------------------------
\* The targets of the cubes (SpecTargets)

\* C23: every target of a cube is in the disc of radius radius -
\* boundaryBuffer, and in a tick of simulateCubes a cube gets a new target
\* (and stays where it is) exactly when its planar distance to its target is
\* < 0.5 or its planar position is not in bounds with padding boundaryBuffer:
\* a cube for which neither holds keeps its target
RetargetWhenOutOfBounds ==
  /\ [](\A i \in 1..Len(cubes) :
          isInBounds([x |-> cubes[i].targetX, z |-> cubes[i].targetZ],
                     boundaryBuffer))
  /\ [][last'.op = "simulateCubes" =>
         \A i \in 1..Len(cubes) :
           LET c == cubes[i]
               d == cubes'[i]
               due == \/ Length(c.targetX - c.x, c.targetZ - c.z) < 50
                      \/ ~isInBounds(c, boundaryBuffer)
           IN /\ due => (d.x = c.x /\ d.z = c.z)
              /\ ~due => (d.targetX = c.targetX /\ d.targetZ = c.targetZ)]_vars

----------------------------------------------------------------------------
\* The speed of the cubes (SpecWander)

\* a cube that moves in a tick of simulateCubes: it is not due a new target
moves(c) ==
  /\ Length(c.targetX - c.x, c.targetZ - c.z) >= 50
  /\ Length(c.x, c.z) < radius - boundaryBuffer

\* the planar distance between where cube c was and where it is as d
moved(c, d) == Length(d.x - c.x, d.z - c.z)

\* the rounding of the speed and of the step, for a tick of dt
tolerance(dt) == dt \div Milli + 2

\* C24 as claimed: a cube that moves in a tick moves by
\* wanderSpeed * ease(min(distance, 5) / 5) * deltaTime
EasedApproach ==
  [][last'.op = "simulateCubes" =>
       \A i \in 1..Len(cubes) :
         moves(cubes[i]) =>
           LET c == cubes[i]
               dist == Length(c.targetX - c.x, c.targetZ - c.z)
               t == TDiv(Min(dist, 5 * Unit) * Milli, 5 * Unit)
               expected == TDiv(c.wanderSpeed * ease(t) * last'.dt, Milli * Milli)
           IN Abs(moved(c, cubes'[i]) - expected) <= tolerance(last'.dt)]_vars

\* C24: a cube that moves in a tick moves toward its target by
\* wanderSpeed * min(distance / 5, 1) * deltaTime
LinearApproach ==
  [][last'.op = "simulateCubes" =>
       \A i \in 1..Len(cubes) :
         moves(cubes[i]) =>
           LET c == cubes[i]
               d == cubes'[i]
               dist == Length(c.targetX - c.x, c.targetZ - c.z)
               expected == TDiv(c.wanderSpeed * Min(dist, 5 * Unit) * last'.dt,
                                5 * Unit * Milli)
           IN /\ Abs(moved(c, d) - expected) <= tolerance(last'.dt)
              /\ (d.x - c.x) * (c.targetX - c.x) >= 0
              /\ (d.z - c.z) * (c.targetZ - c.z) >= 0]_vars

\* a tick has moved a cube that was at distance 2.5 of its target, half way
\* up the ramp, and the cube is now nearer
MovedHalfWayUpRamp ==
  /\ last.op = "simulateCubes"
  /\ last.dt = 1000
  /\ \E i \in 1..Len(cubes) :
       LET dist == Length(cubes[i].targetX - cubes[i].x,
                          cubes[i].targetZ - cubes[i].z)
       IN dist > 2 * Unit /\ 2 * dist < 5 * Unit

----------------------------------------------------------------------------
\* The look accumulator (SpecLook)

\* C25: a call of getLookDelta with the overlay hidden returns what has
\* accumulated, every call leaves the accumulator at (0, 0), and a call that
\* follows a call with no event between them returns (0, 0)
LookDrained ==
  [][last'.op = "getLookDelta" =>
       /\ lookDelta' = Zero2
       /\ ~overlayVisible => last'.vec = lookDelta
       /\ last.op = "getLookDelta" => last'.vec = Zero2]_vars

\* a call of getLookDelta has returned the sum of two mouse movements
ReadSumOfTwo ==
  /\ last.op = "getLookDelta"
  /\ ~last.vis
  /\ last.vec = [x |-> 200, y |-> -300]
  /\ lookDelta = Zero2

----------------------------------------------------------------------------
\* The movement vector (SpecMove)

\* the movement keys of getMovement that are used, an opposite pair on each
\* axis and a second key for "up"
MoveKeys == {"KeyW", "KeyS", "KeyA", "KeyD", "ArrowUp"}

\* joystick vectors of nipplejs, of magnitude 0, 0.5, 0.5, 1 and 1
StickVectors ==
  {Zero2, [x |-> 300, y |-> 400], [x |-> 0, y |-> -500],
   [x |-> 600, y |-> 800], [x |-> -1000, y |-> 0]}

NextMove ==
  \/ \E code \in MoveKeys : KeyDown(code)
  \/ \E code \in MoveKeys : KeyUp(code)
  \/ \E v \in StickVectors : JoystickMove(v)
  \/ CallShow(1)
  \/ CloseClick
  \/ CallGetMovement

SpecMove == Init /\ [][NextMove]_vars

\* the number of keys of ks that are in the key set, in thousandths
pressed(ks) == IF keys \cap ks # {} THEN Milli ELSE 0

\* the sum of the key vector and the joystick vector
movementSum ==
  [x |-> pressed({"KeyD", "ArrowRight"}) - pressed({"KeyA", "ArrowLeft"})
           + joystickMovement.x,
   y |-> pressed({"KeyW", "ArrowUp"}) - pressed({"KeyS", "ArrowDown"})
           + joystickMovement.y]

\* C26: what getMovement returns has magnitude at most 1 for every set of
\* keys and every joystick vector (to two thousandths where the sum is
\* rescaled, the length being rounded down before the division); with the overlay hidden it is the sum of
\* the key vector and the joystick vector when that sum is no longer than 1,
\* and of length 1 in the direction of the sum when it is longer; opposite
\* keys cancel on their axis, and a joystick vector alone is returned as is
MovementCombined ==
  last.op = "getMovement" =>
    LET v == last.vec
        s == movementSum
        long == s.x * s.x + s.y * s.y > Milli * Milli
        cross == v.x * s.y - v.y * s.x
    IN /\ v.x * v.x + v.y * v.y <= (Milli + 2) * (Milli + 2)
       /\ ~long => v.x * v.x + v.y * v.y <= Milli * Milli
       /\ ~isVisible /\ ~long => v = s
       /\ ~isVisible /\ long =>
            /\ v.x * v.x + v.y * v.y >= (Milli - 2) * (Milli - 2)
            /\ v.x * s.x + v.y * s.y > 0
            /\ cross * cross <= 4 * (s.x * s.x + s.y * s.y)
       /\ ~isVisible /\ joystickMovement = Zero2 /\ {"KeyW", "KeyS"} \subseteq keys
            => v.y = 0
       /\ ~isVisible /\ joystickMovement = Zero2 /\ {"KeyA", "KeyD"} \subseteq keys
            => v.x = 0
       /\ ~isVisible /\ keys = {} => v = joystickMovement

\* getMovement has been read with the overlay hidden, a key held and the
\* joystick pushed, their sum longer than 1
RescaledKeyPlusStick ==
  /\ last.op = "getMovement"
  /\ ~isVisible
  /\ keys = {"KeyW", "KeyD"}
  /\ joystickMovement = [x |-> 300, y |-> 400]
  /\ last.vec # movementSum

\* C27: with the overlay hidden and the joystick at rest, getMovement gives a
\* direction only for keys that are physically held: read with no key held,
\* it returns (0, 0), whatever was pressed and released before, also while
\* the overlay was open
HeldKeysTrackKeyboard ==
  (/\ last.op = "getMovement"
   /\ ~isVisible
   /\ joystickMovement = Zero2
   /\ held = {}) => last.vec = Zero2

----------------------------------------------------------------------------
\* Cubes at the edge (SpecCubes)

\* C28: no cube stays where it is for ever. A tick decides between a new
\* target and a move on the planar position and the target alone, and a cube
\* at distance >= radius - boundaryBuffer of the centre takes the same
\* decision in every tick as long as it has not moved; that it ever moves
\* back is therefore that a tick with deltaTime > 0 moves it
EdgeCubeMovesBack ==
  [][last'.op = "simulateCubes" /\ last'.dt > 0 =>
       \A i \in 1..Len(cubes) :
         Length(cubes[i].x, cubes[i].z) >= radius - boundaryBuffer
           => (cubes'[i].x # cubes[i].x \/ cubes'[i].z # cubes[i].z)]_vars

----------------------------------------------------------------------------
\* The length of a step (SpecStride)

StrideKeys == {"KeyW", "KeyD"}
StrideSticks == {Zero2, [x |-> 300, y |-> 400]}
StrideDts == {4000}

NextStride ==
  \/ \E code \in StrideKeys : KeyDown(code)
  \/ \E code \in StrideKeys : KeyUp(code)
  \/ \E v \in StrideSticks : JoystickMove(v)
  \/ \E d \in WalkLook : MouseMove(d.x, d.y, Zero2)
  \/ \E b \in BOOLEAN : PointerLockChange(b)
  \/ \E dt \in StrideDts : frames < StrideTicks /\ PlayerTick(dt)

SpecStride == Init /\ [][NextStride]_vars

\* the planar distance between two player states
stride(a, b) == Length(b.x - a.x, b.z - a.z)

\* what the truncations of the fixed-point arithmetic can take from or add
\* to a displacement of length step
strideTolerance(step) == 2 + TDiv(3 * step, Milli)

\* C29: a tick with the overlay hidden and a movement vector other than
\* (0, 0) moves the player horizontally by no more than moveSpeed * deltaTime,
\* and by moveSpeed * deltaTime where the clamp to the world has not acted,
\* whatever the length of the movement vector
StrideLength ==
  [][last'.op = "update" /\ ~isVisible /\ getMovement # Zero2 =>
       LET step == TDiv(moveSpeed * last'.dt, Milli)
           d == stride(player, player')
       IN /\ d <= step + strideTolerance(step)
          /\ Length(player'.x, player'.z) < radius - 1 * Unit - 2
               => d >= step - strideTolerance(step)]_vars

\* a tick has moved a turned player with W and D held and the joystick half
\* pushed, and the clamp has not acted
DiagonalStride ==
  /\ last.op = "update"
  /\ last.dt = 4000
  /\ Length(player.x, player.z) < radius - 1 * Unit - 2
  /\ ~isVisible
  /\ keys = {"KeyW", "KeyD"}
  /\ joystickMovement = [x |-> 300, y |-> 400]
  /\ player.rotY # 0
  /\ player.x # 0
  /\ player.z # 0

----------------------------------------------------------------------------
\* One renderer for a cube (SpecRenderers)

\* C30: after any sequence of addCube, setConfigs and
\* createRenderersFromState, each cube id has at most one renderer in
\* spawnedCubes, and neither spawnedCubes nor the cube entities of the world
\* are more than the cube states
OneRendererPerCube ==
  /\ \A id \in CubeIds : renderersOf(spawnedCubes, id) <= 1
  /\ Len(spawnedCubes) <= Len(cubes)
  /\ Cardinality({i \in 1..Len(entities) : entities[i] = "cube"}) <= Len(cubes)

====
